---- MODULE Spec2Model ----
(***************************************************************************)
(* The filesystem workload harness of src/filesystem_load_test.py:         *)
(* FilesystemLoadTester.run, its scheduler loop, execute_test_case with    *)
(* the three benchmark functions and the one-time setup, DatabaseLogger    *)
(* (the result sink) and the SIGTERM/SIGINT handler.                       *)
(*                                                                         *)
(* The main thread is one sequential process; pc is its position.  A       *)
(* state is taken between two blocking operations of the code (an          *)
(* external process, a filesystem removal, a sink call, a sleep).  The     *)
(* outcome of every such operation is an input: exit status 0 or not,      *)
(* timeout, a raised exception.  exc is the exception the main thread is   *)
(* unwinding with while it runs a finally block.                           *)
(***************************************************************************)
EXTENDS Integers, Sequences, FiniteSets, TLC

(* ------------------------------ bounds -------------------------------- *)

\* Loop iterations the model follows (the code's while True never ends).
MaxIter == 2

\* Largest loop_duration (seconds) the model follows within one iteration.
MaxElapsed == 3

\* Largest number of seconds one blocking operation takes.
MaxStep == 1

\* Termination signals delivered in one run.
MaxSignals == 1

(* --------------------------- configuration ---------------------------- *)

\* config["test_definitions"]: name -> {type, setup_required}.  "odd" has a
\* type execute_test_case does not know; "ghost" (used in enabled_tests
\* below) is defined nowhere.
TestDefinitions ==
    [ clone     |-> [type |-> "git_clone",          setup_required |-> FALSE],
      venv      |-> [type |-> "virtualenv_install", setup_required |-> TRUE],
      pandas    |-> [type |-> "pandas_load",        setup_required |-> TRUE],
      pandas_ns |-> [type |-> "pandas_load",        setup_required |-> FALSE],
      odd       |-> [type |-> "rsync",              setup_required |-> FALSE] ]

DefinedNames == DOMAIN TestDefinitions

\* config["enabled_tests"]: the ordered lists the model draws from.
EnabledChoices ==
    { <<"pandas", "clone">>,
      <<"odd", "ghost", "venv">>,
      <<"clone", "clone", "pandas_ns">>,
      <<"pandas", "pandas">>,
      <<"ghost">> }

\* config["loop_interval_seconds"]: an integer >= 0.
IntervalChoices == {0, 2, 10}

\* test_config.get("setup_required", False)
SetupRequired(name) == TestDefinitions[name].setup_required

TestType(name) == TestDefinitions[name].type

(* ------------------------------- state -------------------------------- *)

VARIABLES
    enabled_tests,    \* config["enabled_tests"]
    loop_interval,    \* config["loop_interval_seconds"]
    status,           \* "running", "exit0" (sys.exit(0)), "exit1" (sys.exit(1))
    pc,               \* position of the main thread
    exc,              \* "none", "SystemExit" or "Exception": what is propagating
    iteration,        \* run_test_loop's iteration counter
    idx,              \* index into enabled_tests of the for loop
    elapsed,          \* time.time() - loop_start, in seconds
    wait_time,        \* the wait_time last computed by run_test_loop
    setup_completed,  \* FilesystemLoadTester.setup_completed
    ws_exists,        \* target_path.exists()
    artifacts,        \* the directories under target_path
    connection,       \* DatabaseLogger.connection is not None
    result,           \* execute_test_case's (success, error_message)
    bench_started,    \* a benchmark function was entered in this execute_test_case
    results_iter,     \* calls of log_test_result in this iteration
    rows_iter,        \* rows committed to the sink in this iteration
    setup_calls,      \* name -> calls of run_test_setup in this process
    signals,          \* termination signals handled so far
    purge_raised,     \* a handler's rmtree(target_path) raised
    disconnect_raised,\* a handler's db_logger.disconnect() raised
    fatal_cause,      \* what escaped to run()'s except clause
    tmp_dirs,         \* one of /tmp/files, /tmp/opt, /tmp/pip is a directory
    install_failed,   \* pip install of the benchmark in progress exited non-zero
    overrun_warnings, \* "Test loop took longer ..." warnings of this iteration
    skip_warnings,    \* "Unknown test case ..." warnings of this iteration
    clean_purges,     \* cleanup_test_artifacts calls in a row that logged no
                      \* error, with no workload executed since the first
    purge_calls,      \* cleanup_test_artifacts calls of this iteration (before
                      \* the first iteration: of run)
    body_returned     \* the try body of the test_git_clone or
                      \* test_virtualenv_install call in progress reached its
                      \* return statement

cfgVars   == <<enabled_tests, loop_interval>>
loopVars  == <<iteration, idx, elapsed, wait_time>>
fsVars    == <<ws_exists, artifacts, tmp_dirs>>
execVars  == <<result, bench_started, install_failed, body_returned>>
countVars == <<results_iter, rows_iter, setup_calls>>
sigVars   == <<signals, purge_raised, disconnect_raised>>
diagVars  == <<overrun_warnings, skip_warnings, purge_calls>>

vars == <<enabled_tests, loop_interval, status, pc, exc, iteration, idx,
          elapsed, wait_time, setup_completed, ws_exists, artifacts,
          connection, result, bench_started, results_iter, rows_iter,
          setup_calls, signals, purge_raised, disconnect_raised, fatal_cause,
          tmp_dirs, install_failed, overrun_warnings, skip_warnings,
          clean_purges, purge_calls, body_returned>>

(* ---------------------------- the workspace --------------------------- *)

\* A directory under target_path.  kind is the name's prefix; tag is what
\* follows it: for test_repo_<int(time.time())> and test_venv_<...> whether
\* the stamp is the current second ("now") or an earlier one ("old"), for
\* pandas_venv_<test_name> the test name.  cur marks the directory whose
\* path the benchmark function in progress computed.
Artifact(kind, tag, cur) == [kind |-> kind, tag |-> tag, cur |-> cur]

TransientKinds == {"test_repo", "test_venv"}

\* item.name.startswith("test_repo_") or item.name.startswith("test_venv_")
IsTransient(a) == a.kind \in TransientKinds

\* f"pandas_venv_{test_name}"
PandasVenv(name) == Artifact("pandas_venv", name, FALSE)

\* The directory of the benchmark in progress exists: clone_dir.exists().
CurDirExists == \E a \in artifacts : a.cur

\* The clock moves on by dt seconds: a stamp of "now" becomes an earlier one.
Age(arts, dt) ==
    IF dt = 0 THEN arts
    ELSE { IF IsTransient(a) THEN Artifact(a.kind, "old", a.cur) ELSE a : a \in arts }

\* The benchmark function computes its path test_<kind>_<now>: a directory
\* left behind under that very name is the same directory.
ClaimPath(arts, kind) ==
    { IF a.kind = kind /\ a.tag = "now" THEN Artifact(kind, "now", TRUE) ELSE a : a \in arts }

\* The benchmark function returned: its directory, if it is still there, is
\* one more leftover.
ReleasePath(arts) == { Artifact(a.kind, a.tag, FALSE) : a \in arts }

(* ------------------------------ helpers ------------------------------- *)

Max(a, b) == IF a >= b THEN a ELSE b

\* The subtraction without the clamp at 0.
WaitTime_NoClamp(interval, duration) == interval - duration

\* wait_time = max(0, loop_interval_seconds - loop_duration)
WaitTime(interval, duration) == Max(0, interval - duration)

\* Seconds a blocking operation may take, within the model's bound.
Durations == { dt \in 0..MaxStep : elapsed + dt <= MaxElapsed }

\* An except clause that leaves error_message at None.
Failure_NoMessage(err) == [success |-> FALSE, error |-> "null"]

\* success stays False and error_message = str(e), which is a string
\* whatever e is.
Failure(err) == [success |-> FALSE, error |-> err]

Success == [success |-> TRUE, error |-> "null"]

\* The entries of enabled_tests that run_test_loop hands to execute_test_case.
DefinedEntries == { i \in 1..Len(enabled_tests) : enabled_tests[i] \in DefinedNames }

\* test_name of the for loop.
TestName == enabled_tests[idx]

\* Positions inside the try statement of test_git_clone / test_virtualenv_install.
InTransientTry == {"clone_run", "venv_create", "venv_install", "venv_verify"}

\* Positions inside the try statement of run_test_loop.
InLoopTry ==
    {"iter_start", "next_test", "exec_begin", "setup_venv", "setup_pip", "dispatch",
     "clone_run", "venv_create", "venv_install", "venv_verify", "pandas_run",
     "bench_finally", "log", "cleanup", "wait", "sleeping"}

Running == status = "running" /\ exc = "none"

(* ------------------------------- Init --------------------------------- *)

\* The process has started and FilesystemLoadTester.__init__ is about to
\* read the configuration file, whose content is enabled_tests and
\* loop_interval.  setup_completed is empty and the sink is not connected.
\* The workspace may hold what an earlier process left behind.
Init ==
    /\ enabled_tests \in EnabledChoices
    /\ loop_interval \in IntervalChoices
    /\ status = "running"
    /\ pc = "load_config"
    /\ exc = "none"
    /\ iteration = 0
    /\ idx = 0
    /\ elapsed = 0
    /\ wait_time = 0
    /\ setup_completed = {}
    /\ \/ ws_exists = FALSE /\ artifacts = {}
       \/ /\ ws_exists = TRUE
          /\ artifacts \in { {}, {Artifact("test_repo", "old", FALSE)},
                             {PandasVenv("pandas")} }
    /\ connection = FALSE
    /\ result = Success
    /\ bench_started = FALSE
    /\ results_iter = 0
    /\ rows_iter = 0
    /\ setup_calls = [n \in DefinedNames |-> 0]
    /\ signals = 0
    /\ purge_raised = FALSE
    /\ disconnect_raised = FALSE
    /\ fatal_cause = "none"
    /\ tmp_dirs = FALSE
    /\ install_failed = FALSE
    /\ overrun_warnings = 0
    /\ skip_warnings = 0
    /\ clean_purges = 0
    /\ purge_calls = 0
    /\ body_returned = FALSE

(* ------------------------------ startup ------------------------------- *)

\* load_config, in __init__: the file is read and parsed, or it is missing
\* or not JSON (sys.exit(1) in the except clauses) or unreadable or without
\* a required key (the exception leaves main: status 1).  The signal
\* handlers are registered at the end of __init__.
LoadConfig ==
    /\ Running
    /\ pc = "load_config"
    /\ \/ /\ pc' = "ensure_target_path"
          /\ UNCHANGED <<status, fatal_cause>>
       \/ /\ status' = "exit1"
          /\ pc' = "exited"
          /\ fatal_cause' = "config"
    /\ UNCHANGED <<cfgVars, exc, loopVars, setup_completed, fsVars, connection,
                   execVars, countVars, sigVars, diagVars, clean_purges>>

\* A run whose except clause logs the error and goes on.
FatalError_Ignored(cause) ==
    /\ status' = "running"
    /\ pc' = "startup_cleanup"
    /\ fatal_cause' = cause

\* run: except Exception as e: logging.exception(...); sys.exit(1)
FatalError(cause) ==
    /\ status' = "exit1"
    /\ pc' = "exited"
    /\ fatal_cause' = cause

\* The test_repo_* and test_venv_* directories among arts.
Transients(arts) == { a \in arts : IsTransient(a) }

\* A walk that takes the persistent venvs for leftovers too.
CleanupOutcomes_All(arts) == SUBSET arts

\* cleanup_test_artifacts: rmtree of every test_repo_* / test_venv_*
\* directory, in iterdir order.  An rmtree that raises ends the walk; the
\* exception is caught and logged.  removed is what was deleted before that
\* (everything transient when nothing raised).
CleanupOutcomes(arts) == SUBSET Transients(arts)

CleanupTestArtifacts(arts, removed) == arts \ removed

\* A caller that leaves the call out.
Purge_NotCalled(dt) ==
    /\ artifacts' = Age(artifacts, dt)
    /\ UNCHANGED <<tmp_dirs, clean_purges, purge_calls>>

\* One call of cleanup_test_artifacts that takes dt seconds.  iterdir raises
\* when target_path is gone; otherwise the walk over target_path, and when
\* it got through, the rmtree of the /tmp directories that exist.
Purge(dt) ==
    /\ purge_calls' = purge_calls + 1
    /\ IF ~ws_exists
       THEN /\ artifacts' = Age(artifacts, dt)
            /\ tmp_dirs' = tmp_dirs
            /\ clean_purges' = 0
       ELSE \E removed \in CleanupOutcomes(artifacts) :
            /\ artifacts' = Age(CleanupTestArtifacts(artifacts, removed), dt)
            /\ IF removed # Transients(artifacts)
               THEN /\ tmp_dirs' = tmp_dirs
                    /\ clean_purges' = 0
               ELSE \/ /\ tmp_dirs' = FALSE
                       /\ clean_purges' = clean_purges + 1
                    \/ /\ tmp_dirs
                       /\ tmp_dirs' = TRUE
                       /\ clean_purges' = 0

\* A cleanup_test_artifacts without its except clause: what rmtree or
\* iterdir raised leaves the call and reaches run's except clause.
AfterPurge_Escalates(next) ==
    IF clean_purges' = 0
    THEN /\ status' = "exit1"
         /\ pc' = "exited"
         /\ fatal_cause' = "cleanup"
         /\ UNCHANGED exc
    ELSE /\ pc' = next
         /\ UNCHANGED <<status, exc, fatal_cause>>

\* except Exception as e: logging.warning(...): whatever the call raised
\* is logged, the call returns and the caller goes on at next.
AfterPurge(next) ==
    /\ pc' = next
    /\ UNCHANGED <<status, exc, fatal_cause>>

\* run: ensure_target_path.  mkdir and the write probe succeed, or one of
\* them raises and run's except clause exits with status 1.
EnsureTargetPath ==
    /\ Running
    /\ pc = "ensure_target_path"
    /\ \/ /\ ws_exists' = TRUE
          /\ pc' = "startup_cleanup"
          /\ UNCHANGED <<status, fatal_cause>>
       \/ /\ ws_exists' \in {ws_exists, TRUE}
          /\ FatalError("workspace")
    /\ UNCHANGED <<cfgVars, exc, loopVars, setup_completed, artifacts, connection,
                   execVars, countVars, sigVars, tmp_dirs, diagVars, clean_purges>>

\* run: cleanup_test_artifacts() before the loop.
StartupCleanup ==
    /\ Running
    /\ pc = "startup_cleanup"
    /\ Purge(0)
    /\ AfterPurge("connect")
    /\ UNCHANGED <<cfgVars, loopVars, setup_completed, ws_exists, connection,
                   execVars, countVars, sigVars, overrun_warnings, skip_warnings>>

\* run_test_loop: self.db_logger.connect(), before the try statement.
\* connect re-raises what psycopg2.connect raised.
Connect ==
    /\ Running
    /\ pc = "connect"
    /\ \/ /\ connection' = TRUE
          /\ pc' = "iter_start"
          /\ UNCHANGED <<status, fatal_cause>>
       \/ /\ connection' = FALSE
          /\ FatalError("connect")
    /\ UNCHANGED <<cfgVars, exc, loopVars, setup_completed, fsVars, execVars,
                   countVars, sigVars, diagVars, clean_purges>>

(* --------------------------- scheduler loop --------------------------- *)

\* while True: iteration += 1; loop_start = time.time()
IterStart ==
    /\ Running
    /\ pc = "iter_start"
    /\ iteration < MaxIter
    /\ iteration' = iteration + 1
    /\ elapsed' = 0
    /\ idx' = 1
    /\ results_iter' = 0
    /\ rows_iter' = 0
    /\ overrun_warnings' = 0
    /\ skip_warnings' = 0
    /\ purge_calls' = 0
    /\ pc' = "next_test"
    /\ UNCHANGED <<cfgVars, status, exc, wait_time, setup_completed, fsVars,
                   connection, execVars, setup_calls, sigVars, fatal_cause,
                   clean_purges>>

\* A for loop that leaves out every other entry.
NextIndex_Skip(i) == i + 2

\* for test_name in self.config["enabled_tests"]: the entry after entry i.
NextIndex(i) == i + 1

\* A loop that hands every enabled name to execute_test_case.
IsDefined_Always(name) == TRUE

\* run_test_loop: if test_name in self.config["test_definitions"]
IsDefined(name) == name \in DefinedNames

\* for test_name in enabled_tests: a defined name is executed (and
\* execute_test_case sets success = False, error_message = None), an
\* unknown one is skipped with a warning; after the last one the loop goes
\* on to cleanup_test_artifacts.
NextTest ==
    /\ Running
    /\ pc = "next_test"
    /\ \/ /\ idx > Len(enabled_tests)
          /\ pc' = "cleanup"
          /\ UNCHANGED <<idx, execVars, skip_warnings>>
       \/ /\ idx <= Len(enabled_tests)
          /\ IsDefined(TestName)
          /\ pc' = "exec_begin"
          /\ result' = [success |-> FALSE, error |-> "null"]
          /\ bench_started' = FALSE
          /\ install_failed' = FALSE
          /\ body_returned' = FALSE
          /\ UNCHANGED <<idx, skip_warnings>>
       \/ /\ idx <= Len(enabled_tests)
          /\ ~IsDefined(TestName)
          /\ idx' = NextIndex(idx)
          /\ skip_warnings' = skip_warnings + 1
          /\ pc' = "next_test"
          /\ UNCHANGED execVars
    /\ UNCHANGED <<cfgVars, status, exc, iteration, elapsed, wait_time,
                   setup_completed, fsVars, connection, countVars, sigVars,
                   fatal_cause, overrun_warnings, clean_purges, purge_calls>>

(* -------------------------- execute_test_case ------------------------- *)

\* An except clause that catches RuntimeError only: the ValueError of an
\* unknown name or type leaves execute_test_case.
Caught_RuntimeErrorOnly(err) ==
    /\ result' = Failure(err)
    /\ IF err \in {"not_found", "unknown_type"}
       THEN exc' = "Exception" /\ pc' = "loop_finally"
       ELSE exc' = "none" /\ pc' = "log"

\* An except clause that logs the exception and leaves the outcome of the
\* try body as it was.
Caught_KeepsResult(err) ==
    /\ UNCHANGED result
    /\ exc' = "none"
    /\ pc' = "log"

\* except Exception as e: error_message = str(e), success stays False, and
\* control goes on to the log_test_result call.  Every exception class the
\* try body raises is an Exception.
Caught(err) ==
    /\ result' = Failure(err)
    /\ exc' = "none"
    /\ pc' = "log"

\* A setup check that never asks for setup.
NeedsSetup_Never(name) == FALSE

\* A setup check that forgets setup_completed.
NeedsSetup_Always(name) == SetupRequired(name)

\* A setup check that also asks for setup when the persistent venv of a
\* completed pandas_load setup is gone.
NeedsSetup_Repair(name) ==
    /\ SetupRequired(name)
    /\ \/ name \notin setup_completed
       \/ TestType(name) = "pandas_load" /\ PandasVenv(name) \notin artifacts

\* test_config.get("setup_required", False) and test_name not in self.setup_completed
NeedsSetup(name) == SetupRequired(name) /\ name \notin setup_completed

\* An add that is made only for the type that has a setup method.
MarkSetupCompleted_PandasOnly(done, name) ==
    IF TestType(name) = "pandas_load" THEN done \cup {name} ELSE done

\* self.setup_completed.add(test_name), reached only when run_test_setup returned.
MarkSetupCompleted(done, name) == done \cup {name}

\* An except clause of setup_pandas_load_test that re-raises without removing
\* the venv.
SetupFailed_KeepsVenv(arts, name) ==
    /\ UNCHANGED setup_completed
    /\ artifacts' = arts
    /\ Caught("setup")

\* The except clause of setup_pandas_load_test: remove the venv if it is
\* there, then re-raise.  An rmtree that raises here replaces the error and
\* leaves the directory.  Either way execute_test_case's except clause
\* catches what comes out and the result is a failed one.
SetupFailed(arts, name) ==
    /\ UNCHANGED setup_completed
    /\ IF PandasVenv(name) \in arts
       THEN \/ /\ artifacts' = arts \ {PandasVenv(name)}
               /\ Caught("setup")
            \/ /\ artifacts' = arts
               /\ Caught("cleanup")
       ELSE /\ artifacts' = arts
            /\ Caught("setup")

\* A setup that builds into the venv it finds.
RemoveExisting_Keep(arts, name) == arts

\* setup_pandas_load_test: if venv_dir.exists(): shutil.rmtree(venv_dir),
\* when rmtree returns.
RemoveExisting(arts, name) == arts \ {PandasVenv(name)}

\* execute_test_case up to the first blocking operation: the definition is
\* looked up (a name that is not defined raises ValueError), and when setup is required and not yet done run_test_setup is
\* called.  For pandas_load that is setup_pandas_load_test, which first
\* removes an existing venv (an rmtree outside its try statement); for any
\* other type run_test_setup only warns, and the name is marked completed.
ExecBegin ==
    /\ Running
    /\ pc = "exec_begin"
    /\ IF TestName \notin DefinedNames
       THEN /\ Caught("not_found")
            /\ UNCHANGED <<setup_completed, artifacts, setup_calls>>
       ELSE IF NeedsSetup(TestName)
       THEN /\ setup_calls' = [setup_calls EXCEPT ![TestName] = @ + 1]
            /\ IF TestType(TestName) = "pandas_load"
               THEN IF PandasVenv(TestName) \in artifacts
                    THEN \/ /\ artifacts' = RemoveExisting(artifacts, TestName)
                            /\ pc' = "setup_venv"
                            /\ UNCHANGED <<result, exc, setup_completed>>
                         \/ /\ Caught("cleanup")
                            /\ UNCHANGED <<artifacts, setup_completed>>
                    ELSE /\ pc' = "setup_venv"
                         /\ UNCHANGED <<result, exc, setup_completed, artifacts>>
               ELSE /\ setup_completed' = MarkSetupCompleted(setup_completed, TestName)
                    /\ pc' = "dispatch"
                    /\ UNCHANGED <<result, exc, artifacts>>
       ELSE /\ pc' = "dispatch"
            /\ UNCHANGED <<result, exc, setup_completed, artifacts, setup_calls>>
    /\ clean_purges' = 0
    /\ UNCHANGED <<cfgVars, status, loopVars, ws_exists, connection,
                   bench_started, results_iter, rows_iter, sigVars, fatal_cause,
                   tmp_dirs, install_failed, diagVars,
                   body_returned>>

\* setup_pandas_load_test: python -m venv <venv_dir>.  Exit status 0, or a
\* non-zero status or a timeout (the directory may or may not have been
\* created by then).
SetupVenv ==
    /\ Running
    /\ pc = "setup_venv"
    /\ \E dt \in Durations :
       /\ elapsed' = elapsed + dt
       /\ \/ /\ artifacts' = Age(artifacts, dt) \cup {PandasVenv(TestName)}
             /\ pc' = "setup_pip"
             /\ UNCHANGED <<result, exc, setup_completed>>
          \/ \E created \in BOOLEAN :
                SetupFailed(Age(artifacts, dt)
                              \cup (IF created THEN {PandasVenv(TestName)} ELSE {}),
                            TestName)
    /\ UNCHANGED <<cfgVars, status, iteration, idx, wait_time, ws_exists,
                   connection, bench_started, countVars, sigVars, fatal_cause,
                   tmp_dirs, install_failed, diagVars, clean_purges,
                   body_returned>>

\* setup_pandas_load_test: pip install pandas.  On exit status 0 the setup
\* returns and execute_test_case adds the name to setup_completed.
SetupPip ==
    /\ Running
    /\ pc = "setup_pip"
    /\ \E dt \in Durations :
       /\ elapsed' = elapsed + dt
       /\ \/ /\ artifacts' = Age(artifacts, dt)
             /\ setup_completed' = MarkSetupCompleted(setup_completed, TestName)
             /\ pc' = "dispatch"
             /\ UNCHANGED <<result, exc>>
          \/ SetupFailed(Age(artifacts, dt), TestName)
    /\ UNCHANGED <<cfgVars, status, iteration, idx, wait_time, ws_exists,
                   connection, bench_started, countVars, sigVars, fatal_cause,
                   tmp_dirs, install_failed, diagVars, clean_purges,
                   body_returned>>

\* A test_pandas_load that does not look for the venv.
VenvMissing_Never(arts, name) == FALSE

\* test_pandas_load: if not venv_dir.exists()
VenvMissing(arts, name) == PandasVenv(name) \notin arts

\* The if/elif chain on test_type, up to the benchmark function's first
\* blocking operation.  test_git_clone and test_virtualenv_install compute
\* their directory name from the clock; test_pandas_load raises when the
\* persistent venv or its interpreter is missing; an unknown type raises
\* ValueError.
Dispatch ==
    /\ Running
    /\ pc = "dispatch"
    /\ \/ /\ TestType(TestName) = "git_clone"
          /\ artifacts' = ClaimPath(artifacts, "test_repo")
          /\ bench_started' = TRUE
          /\ pc' = "clone_run"
          /\ UNCHANGED <<result, exc>>
       \/ /\ TestType(TestName) = "virtualenv_install"
          /\ artifacts' = ClaimPath(artifacts, "test_venv")
          /\ bench_started' = TRUE
          /\ pc' = "venv_create"
          /\ UNCHANGED <<result, exc>>
       \/ /\ TestType(TestName) = "pandas_load"
          /\ bench_started' = TRUE
          /\ IF VenvMissing(artifacts, TestName)
             THEN Caught("setup_missing")
             ELSE \/ /\ pc' = "pandas_run"
                     /\ UNCHANGED <<result, exc>>
                  \/ Caught("no_python")
          /\ UNCHANGED artifacts
       \/ /\ TestType(TestName) \notin {"git_clone", "virtualenv_install", "pandas_load"}
          /\ Caught("unknown_type")
          /\ UNCHANGED <<artifacts, bench_started>>
    /\ UNCHANGED <<cfgVars, status, loopVars, setup_completed, ws_exists,
                   connection, countVars, sigVars, fatal_cause, tmp_dirs,
                   install_failed, diagVars, clean_purges,
                   body_returned>>

(* ------------------------- benchmark functions ------------------------ *)

\* clone_dir / venv_dir of the benchmark function in progress.
CurDir(kind) == Artifact(kind, "now", TRUE)

\* Exit statuses of git clone the model draws from.
ExitStatuses == {0, 1}

\* A test_git_clone that does not look for .git.
CloneResult_NoMarkerCheck(timed_out, rc, marker) ==
    IF timed_out THEN Failure("timeout")
    ELSE IF rc # 0 THEN Failure("tool")
    ELSE Success

\* test_git_clone, from subprocess.run to return: TimeoutExpired when the
\* command timed out, RuntimeError("Git clone failed: <stderr>") on a
\* non-zero return code, RuntimeError("Repository was not properly cloned")
\* when clone_dir/.git is missing, else the elapsed time is returned.
CloneResult(timed_out, rc, marker) ==
    IF timed_out THEN Failure("timeout")
    ELSE IF rc # 0 THEN Failure("tool")
    ELSE IF ~marker THEN Failure("verify")
    ELSE Success

\* test_git_clone: git clone <url> <clone_dir>, then the .git check.  The
\* command times out or exits with a status; clone_dir is there or not, and
\* when it is, .git is in it or not (a clone that exited with status 0 has
\* made the directory).
CloneRun ==
    /\ Running
    /\ pc = "clone_run"
    /\ \E dt \in Durations, timed_out \in BOOLEAN, rc \in ExitStatuses,
          created \in BOOLEAN, marker \in BOOLEAN :
       /\ marker => created
       /\ (~timed_out /\ rc = 0) => created
       /\ elapsed' = elapsed + dt
       /\ artifacts' = Age(artifacts \cup (IF created THEN {CurDir("test_repo")} ELSE {}), dt)
       /\ result' = CloneResult(timed_out, rc, marker)
    /\ pc' = "bench_finally"
    /\ body_returned' = result'.success
    /\ UNCHANGED <<cfgVars, status, exc, iteration, idx, wait_time, setup_completed,
                   ws_exists, connection, bench_started, countVars, sigVars,
                   fatal_cause, tmp_dirs, install_failed, diagVars, clean_purges>>

\* test_virtualenv_install: python -m venv <venv_dir>; a non-zero status
\* or a timeout raises.
VenvCreate ==
    /\ Running
    /\ pc = "venv_create"
    /\ \E dt \in Durations :
       /\ elapsed' = elapsed + dt
       /\ \/ /\ artifacts' = Age(artifacts \cup {CurDir("test_venv")}, dt)
             /\ pc' = "venv_install"
             /\ UNCHANGED result
          \/ \E err \in {"venv_create", "timeout"}, created \in BOOLEAN :
             /\ artifacts' = Age(artifacts \cup (IF created THEN {CurDir("test_venv")} ELSE {}), dt)
             /\ result' = Failure(err)
             /\ pc' = "bench_finally"
    /\ UNCHANGED <<cfgVars, status, exc, iteration, idx, wait_time, setup_completed,
                   ws_exists, connection, bench_started, countVars, sigVars,
                   fatal_cause, tmp_dirs, install_failed, diagVars, clean_purges,
                   body_returned>>

\* test_virtualenv_install: pip install <packages>.  The exit status is
\* logged and not tested; only a timeout (or a pip that cannot be started)
\* raises.  The installation may leave a directory under /tmp (the ones
\* cleanup_test_artifacts removes).
VenvInstall ==
    /\ Running
    /\ pc = "venv_install"
    /\ \E dt \in Durations :
       /\ elapsed' = elapsed + dt
       /\ artifacts' = Age(artifacts, dt)
       /\ \/ /\ install_failed' \in BOOLEAN
             /\ pc' = "venv_verify"
             /\ UNCHANGED result
          \/ /\ result' = Failure("timeout")
             /\ pc' = "bench_finally"
             /\ UNCHANGED install_failed
    /\ tmp_dirs' \in {tmp_dirs, TRUE}
    /\ UNCHANGED <<cfgVars, status, exc, iteration, idx, wait_time, setup_completed,
                   ws_exists, connection, bench_started, countVars, sigVars,
                   fatal_cause, diagVars, clean_purges,
                   body_returned>>

\* test_virtualenv_install: pip list -v; a non-zero status or a timeout raises.
VenvVerify ==
    /\ Running
    /\ pc = "venv_verify"
    /\ \E dt \in Durations :
       /\ elapsed' = elapsed + dt
       /\ artifacts' = Age(artifacts, dt)
       /\ \/ result' = Success
          \/ \E err \in {"verify", "timeout"} : result' = Failure(err)
    /\ pc' = "bench_finally"
    /\ body_returned' = result'.success
    /\ UNCHANGED <<cfgVars, status, exc, iteration, idx, wait_time, setup_completed,
                   ws_exists, connection, bench_started, countVars, sigVars,
                   fatal_cause, tmp_dirs, install_failed, diagVars, clean_purges>>

\* test_pandas_load: <venv>/bin/python -c "import pandas; ...".
PandasRun ==
    /\ Running
    /\ pc = "pandas_run"
    /\ \E dt \in Durations :
       /\ elapsed' = elapsed + dt
       /\ artifacts' = Age(artifacts, dt)
       /\ \/ /\ result' = Success
             /\ pc' = "log"
             /\ UNCHANGED exc
          \/ \E err \in {"tool", "timeout"} : Caught(err)
    /\ UNCHANGED <<cfgVars, status, iteration, idx, wait_time, setup_completed,
                   ws_exists, connection, bench_started, countVars, sigVars,
                   fatal_cause, tmp_dirs, install_failed, diagVars, clean_purges,
                   body_returned>>

\* A finally clause that leaves the directory where it is.
RemoveCurDir_Keep(arts) == ReleasePath(arts)

\* if clone_dir.exists(): shutil.rmtree(clone_dir), when rmtree returns.
RemoveCurDir(arts) == ReleasePath({ a \in arts : ~a.cur })

\* The finally clause of test_git_clone / test_virtualenv_install:
\* if the directory exists, shutil.rmtree it.  It runs on return, on an
\* exception of the try body, and while SystemExit (raised by the signal
\* handler) unwinds through the function.  An rmtree that raises replaces
\* whatever was propagating by an Exception, which execute_test_case's
\* except clause catches.
BenchFinally ==
    /\ status = "running"
    /\ pc = "bench_finally"
    /\ exc \in {"none", "SystemExit"}
    /\ \/ /\ artifacts' = RemoveCurDir(artifacts)
          /\ pc' = IF exc = "none" THEN "log" ELSE "loop_finally"
          /\ UNCHANGED <<result, exc>>
       \/ /\ CurDirExists
          /\ artifacts' = ReleasePath(artifacts)
          /\ Caught("cleanup")
    /\ UNCHANGED <<cfgVars, status, loopVars, setup_completed, ws_exists,
                   connection, bench_started, countVars, sigVars, fatal_cause,
                   tmp_dirs, install_failed, diagVars, clean_purges,
                   body_returned>>

(* ------------------------------ the sink ------------------------------ *)

\* A log_test_result that raises when it has no connection.
NoConnection_Raises ==
    /\ exc' = "Exception"
    /\ fatal_cause' = "sink_write"
    /\ pc' = "loop_finally"
    /\ UNCHANGED <<rows_iter, idx>>

\* if not self.connection: logging.warning("No database connection
\* available"); return.  Nothing is written, execute_test_case returns and
\* the for loop takes the next entry.
NoConnection ==
    /\ idx' = NextIndex(idx)
    /\ pc' = "next_test"
    /\ UNCHANGED <<rows_iter, exc, fatal_cause>>

\* DatabaseLogger.log_test_result, called at the end of execute_test_case.
\* Without a connection it warns and returns.  Otherwise the INSERT and the
\* commit succeed, or one of them raises: the except clause logs and calls
\* connection.rollback(), which is not itself guarded; when it raises too,
\* the exception leaves log_test_result and execute_test_case and unwinds
\* run_test_loop.
LogTestResult ==
    /\ Running
    /\ pc = "log"
    /\ results_iter' = results_iter + 1
    /\ install_failed' = FALSE
    /\ body_returned' = FALSE
    /\ \/ /\ ~connection
          /\ NoConnection
       \/ /\ connection
          /\ rows_iter' = rows_iter + 1
          /\ idx' = NextIndex(idx)
          /\ pc' = "next_test"
          /\ UNCHANGED <<exc, fatal_cause>>
       \/ /\ connection
          /\ idx' = NextIndex(idx)
          /\ pc' = "next_test"
          /\ UNCHANGED <<rows_iter, exc, fatal_cause>>
       \/ /\ connection
          /\ exc' = "Exception"
          /\ fatal_cause' = "sink_write"
          /\ pc' = "loop_finally"
          /\ UNCHANGED <<rows_iter, idx>>
    /\ UNCHANGED <<cfgVars, status, iteration, elapsed, wait_time, setup_completed,
                   fsVars, connection, result, bench_started, setup_calls, sigVars, diagVars,
                   clean_purges>>

(* ---------------------- end of a loop iteration ----------------------- *)

\* run_test_loop: cleanup_test_artifacts() after the for loop.
CleanupStep ==
    /\ Running
    /\ pc = "cleanup"
    /\ \E dt \in Durations :
       /\ elapsed' = elapsed + dt
       /\ Purge(dt)
    /\ AfterPurge("wait")
    /\ UNCHANGED <<cfgVars, iteration, idx, wait_time, setup_completed, ws_exists,
                   connection, execVars, countVars, sigVars, overrun_warnings,
                   skip_warnings>>

\* A test that sends a wait of 0 to time.sleep instead of warning.
ShouldSleep_Always(wt) == wt >= 0

\* if wait_time > 0
ShouldSleep(wt) == wt > 0

\* loop_duration = time.time() - loop_start; wait_time = max(0, ...);
\* if wait_time > 0 the loop sleeps, else it warns and goes on at once.
WaitStep ==
    /\ Running
    /\ pc = "wait"
    /\ wait_time' = WaitTime(loop_interval, elapsed)
    /\ IF ShouldSleep(wait_time')
       THEN /\ pc' = "sleeping"
            /\ UNCHANGED overrun_warnings
       ELSE /\ pc' = "iter_start"
            /\ overrun_warnings' = overrun_warnings + 1
    /\ UNCHANGED <<cfgVars, status, exc, iteration, idx, elapsed, setup_completed,
                   fsVars, connection, execVars, countVars, sigVars, fatal_cause,
                   skip_warnings, clean_purges, purge_calls>>

\* time.sleep(wait_time) returns.
Sleep ==
    /\ Running
    /\ pc = "sleeping"
    /\ artifacts' = Age(artifacts, wait_time)
    /\ pc' = "iter_start"
    /\ UNCHANGED <<cfgVars, status, exc, loopVars, setup_completed, ws_exists,
                   connection, execVars, countVars, sigVars, fatal_cause,
                   tmp_dirs, diagVars, clean_purges>>

(* ------------------------- signal and teardown ------------------------ *)

\* A run_test_loop whose try statement starts before anything else run
\* does.
UnwindTarget_TryAroundStartup(p) ==
    IF p \in InTransientTry THEN "bench_finally" ELSE "loop_finally"

\* Where SystemExit, raised by the handler at position p of the main
\* thread, is next: the finally clause of a benchmark function, the finally
\* clause of run_test_loop, or the top of the process.
UnwindTarget(p) ==
    IF p \in InTransientTry THEN "bench_finally"
    ELSE IF p \in InLoopTry THEN "loop_finally"
    ELSE "exited"

\* What the external process that is running at position p may have
\* created by the time the handler runs: nothing yet, or its directory.
InFlight(p) ==
    IF p = "clone_run" THEN {{}, {CurDir("test_repo")}}
    ELSE IF p = "venv_create" THEN {{}, {CurDir("test_venv")}}
    ELSE IF p = "setup_venv" THEN {{}, {PandasVenv(TestName)}}
    ELSE {{}}

\* _signal_handler, run in the main thread wherever it is once __init__
\* has registered it.  rmtree of
\* target_path when it exists (an exception is logged; part of the tree
\* may be left), then db_logger.disconnect() (connection.close() may raise,
\* leaving self.connection set; the exception is logged), then sys.exit(0):
\* SystemExit unwinds the main thread from its position.
SignalHandler ==
    /\ status = "running"
    /\ pc \notin {"load_config", "exited"}
    /\ signals < MaxSignals
    /\ signals' = signals + 1
    /\ IF ws_exists
       THEN \/ /\ ws_exists' = FALSE
               /\ artifacts' = {}
               /\ UNCHANGED purge_raised
            \/ /\ ws_exists' = TRUE
               /\ \E created \in InFlight(pc) : artifacts' \in SUBSET (artifacts \cup created)
               /\ purge_raised' = TRUE
       ELSE UNCHANGED <<ws_exists, artifacts, purge_raised>>
    /\ IF connection
       THEN \/ /\ connection' = FALSE
               /\ UNCHANGED disconnect_raised
            \/ /\ connection' = TRUE
               /\ disconnect_raised' = TRUE
       ELSE UNCHANGED <<connection, disconnect_raised>>
    /\ exc' = "SystemExit"
    /\ pc' = UnwindTarget(pc)
    /\ status' = IF UnwindTarget(pc) = "exited" THEN "exit0" ELSE "running"
    /\ UNCHANGED <<cfgVars, loopVars, setup_completed, execVars, countVars,
                   fatal_cause, tmp_dirs, diagVars, clean_purges>>

\* The finally clause of run_test_loop, self.db_logger.disconnect(), with
\* SystemExit or an Exception propagating.  SystemExit then ends the process
\* with status 0; an Exception (the one propagating, or the one close()
\* raises here in its place) reaches run's except clause: sys.exit(1).
LoopFinally ==
    /\ status = "running"
    /\ pc = "loop_finally"
    /\ exc \in {"SystemExit", "Exception"}
    /\ IF connection
       THEN \/ /\ connection' = FALSE
               /\ status' = IF exc = "SystemExit" THEN "exit0" ELSE "exit1"
               /\ UNCHANGED <<exc, fatal_cause>>
            \/ /\ connection' = TRUE
               /\ status' = "exit1"
               /\ fatal_cause' = IF exc = "SystemExit" THEN "teardown" ELSE fatal_cause
               /\ exc' = "Exception"
       ELSE /\ status' = IF exc = "SystemExit" THEN "exit0" ELSE "exit1"
            /\ UNCHANGED <<connection, exc, fatal_cause>>
    /\ pc' = "exited"
    /\ UNCHANGED <<cfgVars, loopVars, setup_completed, fsVars, execVars,
                   countVars, sigVars, diagVars, clean_purges>>

(* --------------------------- specification ---------------------------- *)

Next ==
    \/ LoadConfig
    \/ EnsureTargetPath
    \/ StartupCleanup
    \/ Connect
    \/ IterStart
    \/ NextTest
    \/ ExecBegin
    \/ SetupVenv
    \/ SetupPip
    \/ Dispatch
    \/ CloneRun
    \/ VenvCreate
    \/ VenvInstall
    \/ VenvVerify
    \/ PandasRun
    \/ BenchFinally
    \/ LogTestResult
    \/ CleanupStep
    \/ WaitStep
    \/ Sleep
    \/ SignalHandler
    \/ LoopFinally

Spec == Init /\ [][Next]_vars

TypeOK ==
    /\ status \in {"running", "exit0", "exit1"}
    /\ exc \in {"none", "SystemExit", "Exception"}
    /\ iteration \in 0..MaxIter
    /\ elapsed \in 0..MaxElapsed
    /\ setup_completed \subseteq DefinedNames
    /\ connection \in BOOLEAN
    /\ result.success \in BOOLEAN
    /\ signals \in 0..MaxSignals
    /\ tmp_dirs \in BOOLEAN
    /\ install_failed \in BOOLEAN
    /\ overrun_warnings \in 0..1
    /\ skip_warnings \in 0..Len(enabled_tests)
    /\ clean_purges \in 0..(MaxIter + 1)
    /\ purge_calls \in 0..1
    /\ body_returned \in BOOLEAN

(* ============================== claims ================================ *)

\* Positions inside a benchmark function (test_git_clone,
\* test_virtualenv_install, test_pandas_load).
BenchPositions ==
    {"clone_run", "venv_create", "venv_install", "venv_verify", "pandas_run",
     "bench_finally"}

\* Positions inside execute_test_case before log_test_result.
WorkloadPositions == {"exec_begin", "setup_venv", "setup_pip", "dispatch"} \cup BenchPositions

\* C1: a workload with setup_required = true never has its benchmark
\* function started (or in progress, or just returned) unless its name is
\* in setup_completed.
C1_SetupBeforeBenchmark ==
    (status = "running" /\ (pc \in BenchPositions \/ (pc = "log" /\ bench_started)))
        => (SetupRequired(TestName) => TestName \in setup_completed)

\* C1 witness: the import benchmark of the setup_required workload "pandas"
\* is running, after its setup.
C1_Witness ==
    /\ pc = "pandas_run"
    /\ TestName = "pandas"
    /\ setup_calls["pandas"] = 1
    /\ "pandas" \in setup_completed

\* C2: in every iteration log_test_result is called once per entry of
\* enabled_tests that is in test_definitions: once per entry passed so far
\* while the for loop runs, and once per defined entry when it is over.
C2_OneResultPerWorkload ==
    /\ (Running /\ pc = "next_test")
          => results_iter = Cardinality({ i \in DefinedEntries : i < idx })
    /\ (Running /\ pc \in {"cleanup", "wait", "sleeping"})
          => results_iter = Cardinality(DefinedEntries)

\* C2 witness: an iteration over <<"odd", "ghost", "venv">> is over, with
\* two results, the last one a failure.
C2_Witness ==
    /\ Running
    /\ pc = "cleanup"
    /\ enabled_tests = <<"odd", "ghost", "venv">>
    /\ results_iter = 2
    /\ ~result.success

\* C3: a failure inside execute_test_case (lookup, setup, benchmark, the
\* benchmark's own cleanup) never leaves execute_test_case: the process
\* keeps running with no exception propagating, on the same entry of
\* enabled_tests, and reaches log_test_result with success = false and an
\* error text; and when log_test_result has returned for a failed result,
\* the for loop goes on with the next entry.
C3_FailureIsContained ==
    [][ /\ (Running /\ pc \in WorkloadPositions /\ signals' = signals)
           => /\ status' = "running"
              /\ exc' = "none"
              /\ idx' = idx
              /\ pc' \in WorkloadPositions \cup {"log"}
              /\ (pc' = "log" /\ ~result'.success) => result'.error # "null"
        /\ (Running /\ pc = "log" /\ ~result.success /\ signals' = signals /\ exc' = "none")
           => /\ status' = "running"
              /\ pc' = "next_test"
              /\ idx' = idx + 1
              /\ results_iter' = results_iter + 1 ]_vars

\* C3 witness: the first workload of the iteration, "odd", failed (its type
\* is unknown, so it can only fail), one result was handed to the sink, and
\* the last workload of the iteration is being executed.
C3_Witness ==
    /\ Running
    /\ enabled_tests = <<"odd", "ghost", "venv">>
    /\ idx = 3
    /\ pc = "venv_create"
    /\ results_iter = 1

\* C4: a failure of the sink write never makes the harness exit: no
\* exception of log_test_result reaches run's except clause.
C4_SinkFailureNeverStops == ~(status = "exit1" /\ fatal_cause = "sink_write")

\* C5: once a termination signal has been handled, the process, when it
\* has exited, has exited with status 0 with the sink disconnected.
C5_SignalExitsZero ==
    (signals > 0 /\ status # "running") => (status = "exit0" /\ ~connection)

\* C6: when a teardown step of the handler raised, the process neither
\* exits with a non-zero status nor goes back to normal execution.
C6_TeardownIsBestEffort ==
    (purge_raised \/ disconnect_raised) => (status # "exit1" /\ ~Running)

\* C7: once a signal has been received, no workload execution and no loop
\* iteration is started.
C7_DrainingIsTerminal ==
    [][ signals > 0
          => /\ ~(pc' = "exec_begin" /\ pc # "exec_begin")
             /\ iteration' = iteration ]_vars

\* The setup of the workload being executed has just failed: control is at
\* log_test_result and no benchmark function was entered.
SetupFailedState ==
    /\ Running
    /\ pc = "log"
    /\ ~bench_started
    /\ result.error \in {"setup", "cleanup"}

\* C8 as claimed: after a failed setup the name is not in setup_completed,
\* the persistent venv is gone, no benchmark ran and the result is a failure.
C8_Original ==
    SetupFailedState
        => /\ TestName \notin setup_completed
           /\ PandasVenv(TestName) \notin artifacts
           /\ ~result.success

\* C8 as amended: after a failed setup the name is not in setup_completed,
\* no benchmark ran, the result is a failure, and the persistent venv is
\* gone unless it was a removal of that venv that raised; and an execution
\* of a setup_required workload whose name is not in setup_completed calls
\* the setup (again).
C8_SetupFailure ==
    /\ [](SetupFailedState
            => /\ TestName \notin setup_completed
               /\ ~result.success
               /\ (result.error = "setup" => PandasVenv(TestName) \notin artifacts))
    /\ [][ (Running /\ pc = "exec_begin" /\ signals' = signals
              /\ SetupRequired(TestName) /\ TestName \notin setup_completed)
           => setup_calls'[TestName] = setup_calls[TestName] + 1 ]_vars

\* C8 witness: in the second iteration the setup of "pandas" has failed for
\* the second time.
C8_Witness ==
    /\ SetupFailedState
    /\ TestName = "pandas"
    /\ result.error = "setup"
    /\ iteration = 2
    /\ setup_calls["pandas"] = 2

\* C9 as claimed: over two iterations the setup of a workload is called at
\* most once.
C9_Original == \A n \in DefinedNames : setup_calls[n] <= 1

\* C9 as amended: a name is in setup_completed only after a call of its
\* setup, and once it is there its setup is never called again.
C9_SetupOnceSucceeded ==
    /\ [](\A n \in setup_completed : setup_calls[n] >= 1)
    /\ [][ \A n \in setup_completed : setup_calls'[n] = setup_calls[n] ]_vars

\* C9 witness: the second iteration executes "pandas", finds the name in
\* setup_completed and goes to the benchmark without a second setup.
C9_Witness ==
    /\ Running
    /\ iteration = 2
    /\ pc = "dispatch"
    /\ TestName = "pandas"
    /\ "pandas" \in setup_completed
    /\ setup_calls["pandas"] = 1

\* C10: the wait computed at the end of an iteration is loop_interval minus
\* the iteration's duration when that is positive and 0 otherwise; it lies
\* in 0..loop_interval, and a sleep is a sleep of a positive time.
C10_WaitIsClampedRemainder ==
    (Running /\ (pc = "sleeping" \/ (pc = "iter_start" /\ iteration >= 1)))
        => /\ wait_time = (IF elapsed >= loop_interval THEN 0 ELSE loop_interval - elapsed)
           /\ wait_time >= 0
           /\ wait_time <= loop_interval
           /\ (pc = "sleeping" => wait_time > 0)

\* C10 witness: interval 10, an iteration of 3 seconds, a sleep of 7.
C10_Witness ==
    /\ pc = "sleeping"
    /\ loop_interval = 10
    /\ elapsed = 3
    /\ wait_time = 7

\* Positions of execute_test_case, the log_test_result call included.
ExecutePositions == WorkloadPositions \cup {"log"}

\* Positions at which cleanup_test_artifacts is about to be called.
PurgePositions == {"startup_cleanup", "cleanup"}

\* C11: at the end of an iteration whose duration is at least loop_interval
\* the loop goes to the next iteration without sleeping and warns once; with
\* a shorter duration it sleeps and does not warn; an iteration has at most
\* one overrun warning; the next iteration starts at the first entry of
\* enabled_tests, and an iteration that follows an overrun (wait_time = 0)
\* has, at its end, passed every entry: one result per defined entry and
\* one skip per unknown one.
C11_OverrunHandling ==
    /\ [](overrun_warnings <= 1)
    /\ []((Running /\ iteration >= 2 /\ wait_time = 0 /\ pc \in {"cleanup", "wait"})
            => /\ results_iter = Cardinality(DefinedEntries)
               /\ results_iter + skip_warnings = Len(enabled_tests))
    /\ [][ /\ (Running /\ pc = "wait" /\ signals' = signals)
              => IF elapsed >= loop_interval
                 THEN /\ pc' = "iter_start"
                      /\ wait_time' = 0
                      /\ overrun_warnings = 0
                      /\ overrun_warnings' = 1
                 ELSE /\ pc' = "sleeping"
                      /\ overrun_warnings' = 0
           /\ (Running /\ pc = "iter_start" /\ signals' = signals)
              => /\ pc' = "next_test"
                 /\ idx' = 1
                 /\ iteration' = iteration + 1 ]_vars

\* C11 witness: interval 2; the first iteration overran, and the second one
\* has executed both of its workloads.
C11_Witness ==
    /\ Running
    /\ iteration = 2
    /\ pc = "wait"
    /\ loop_interval = 2
    /\ wait_time = 0
    /\ enabled_tests = <<"pandas", "clone">>
    /\ results_iter = 2

\* C12: while an entry of enabled_tests is being executed, every defined
\* entry before it has been executed and recorded, and none after it; the
\* for loop moves from an entry to the one after it only, and only when
\* log_test_result has returned (or the entry was skipped); and an
\* execution starts from the for loop only, never from within another one.
C12_Sequential ==
    /\ []((Running /\ pc \in ExecutePositions)
            => /\ idx \in 1..Len(enabled_tests)
               /\ results_iter = Cardinality({ i \in DefinedEntries : i < idx }))
    /\ [][ /\ (Running /\ signals' = signals)
              => \/ idx' = idx
                 \/ idx' = idx + 1 /\ pc \in {"log", "next_test"}
                 \/ idx' = 1 /\ pc = "iter_start"
           /\ (pc' = "exec_begin" /\ pc # "exec_begin") => pc = "next_test" ]_vars

\* C12 witness: the third workload of <<"clone", "clone", "pandas_ns">> is
\* being executed after the two before it were recorded.
C12_Witness ==
    /\ Running
    /\ enabled_tests = <<"clone", "clone", "pandas_ns">>
    /\ idx = 3
    /\ pc = "dispatch"
    /\ results_iter = 2

\* C13: when loading the configuration or ensure_target_path failed, the
\* process has exited with status 1, the sink was never connected, no
\* iteration was started and no setup or benchmark was run; no step goes
\* back to a startup position, and a process that has exited takes no step.
C13_StartupFailureIsFatal ==
    /\ [](fatal_cause \in {"config", "workspace"}
            => /\ status = "exit1"
               /\ pc = "exited"
               /\ ~connection
               /\ iteration = 0
               /\ results_iter = 0
               /\ \A n \in DefinedNames : setup_calls[n] = 0)
    /\ [][ /\ status = "running"
           /\ pc' = "load_config" => pc = "load_config"
           /\ pc' = "ensure_target_path" => pc \in {"load_config", "ensure_target_path"} ]_vars

\* C13 witness: mkdir of the workspace failed and the process is gone.
C13_Witness ==
    /\ fatal_cause = "workspace"
    /\ status = "exit1"
    /\ ~ws_exists
    /\ ~connection

\* C14: a process that has exited with status 1 has done so because of a
\* configuration or a workspace failure at startup.
C14_OnlyStartupFatal ==
    status = "exit1" => fatal_cause \in {"config", "workspace"}

\* C15: an entry of enabled_tests that is not in test_definitions is passed
\* over with one warning: no result, no row, no setup, no change of the
\* workspace, the process keeps running and the for loop is at the next
\* entry; execute_test_case only ever runs a defined name; and at the end
\* of every iteration each unknown entry was skipped once and each defined
\* one has its result.
C15_UnknownNameSkipped ==
    /\ []((Running /\ pc \in ExecutePositions) => TestName \in DefinedNames)
    /\ []((Running /\ pc \in {"cleanup", "wait", "sleeping"})
            => /\ skip_warnings = Len(enabled_tests) - Cardinality(DefinedEntries)
               /\ results_iter = Cardinality(DefinedEntries))
    /\ [][ (/\ Running
            /\ pc = "next_test"
            /\ idx <= Len(enabled_tests)
            /\ TestName \notin DefinedNames
            /\ signals' = signals)
           => /\ pc' = "next_test"
              /\ idx' = idx + 1
              /\ skip_warnings' = skip_warnings + 1
              /\ status' = "running"
              /\ exc' = "none"
              /\ UNCHANGED <<results_iter, rows_iter, setup_calls, setup_completed,
                             artifacts>> ]_vars

\* C15 witness: in the second iteration over <<"odd", "ghost", "venv">>,
\* "ghost" was skipped again and "venv" is being executed.
C15_Witness ==
    /\ Running
    /\ iteration = 2
    /\ enabled_tests = <<"odd", "ghost", "venv">>
    /\ idx = 3
    /\ pc = "venv_create"
    /\ skip_warnings = 1
    /\ results_iter = 1

\* C16 as claimed: when a clone or env_install benchmark has returned to
\* execute_test_case, whatever its outcome, the directory of that execution
\* is not in the workspace.
C16_Original ==
    [][ (pc = "bench_finally" /\ exc = "none" /\ pc' = "log")
        => \A a \in artifacts : a.cur => Artifact(a.kind, a.tag, FALSE) \notin artifacts' ]_vars

\* C16 as amended: when the finally clause of a clone or env_install
\* benchmark ends without its rmtree raising, the directory of that
\* execution is gone and nothing else was touched; outside such a benchmark
\* no directory belongs to an execution in progress; and the number of
\* transient directories grows only while a clone or a venv creation runs:
\* what is there between two executions was left by a removal that raised
\* or by an earlier process.
C16_TransientRemoved ==
    /\ []((Running /\ pc \notin InTransientTry \cup {"bench_finally"}) => ~CurDirExists)
    /\ [][ /\ (/\ pc = "bench_finally"
               /\ exc = "none"
               /\ signals' = signals
               /\ ~(pc' = "log" /\ result'.error = "cleanup"))
              => /\ pc' = "log"
                 /\ artifacts' = { a \in artifacts : ~a.cur }
                 /\ result' = result
           /\ Cardinality(Transients(artifacts')) > Cardinality(Transients(artifacts))
              => pc \in {"clone_run", "venv_create"} ]_vars

\* C16 witness: an env_install execution whose verification failed has
\* returned, and the workspace holds no transient directory.
C16_Witness ==
    /\ Running
    /\ pc = "log"
    /\ TestName = "venv"
    /\ result.error = "verify"
    /\ Transients(artifacts) = {}

\* C17: a call of cleanup_test_artifacts leaves every directory that is not
\* test_repo_* / test_venv_* where it is, creates nothing, leaves
\* setup_completed, the setup counts and the workspace directory itself
\* alone, and, when it logged no error, has removed every transient
\* directory.
C17_PurgeFrame ==
    [][ (Running /\ pc \in PurgePositions /\ signals' = signals)
        => /\ artifacts' \ Transients(artifacts') = artifacts \ Transients(artifacts)
           /\ Cardinality(Transients(artifacts')) <= Cardinality(Transients(artifacts))
           /\ \A a \in Transients(artifacts') : \E b \in Transients(artifacts) : b.kind = a.kind
           /\ UNCHANGED <<setup_completed, setup_calls, ws_exists>>
           /\ (clean_purges' > 0 => Transients(artifacts') = {}) ]_vars

\* C17 witness: the clone benchmark of <<"pandas", "clone">> could not
\* remove its directory; the purge at the end of the iteration removed it
\* and kept the persistent venv of "pandas".
C17_Witness ==
    /\ Running
    /\ pc = "wait"
    /\ enabled_tests = <<"pandas", "clone">>
    /\ bench_started
    /\ result.error = "cleanup"
    /\ clean_purges = 1
    /\ artifacts = {PandasVenv("pandas")}
    /\ "pandas" \in setup_completed

\* C18: a call of cleanup_test_artifacts that follows one that logged no
\* error, with no workload executed in between, finds nothing to remove:
\* it changes nothing in the workspace or under /tmp, logs no error and
\* raises nothing.
C18_PurgeIdempotent ==
    /\ [](clean_purges >= 1 => (Transients(artifacts) = {} /\ ~tmp_dirs))
    /\ [][ (Running /\ pc \in PurgePositions /\ clean_purges >= 1 /\ signals' = signals)
           => /\ artifacts' = artifacts
              /\ tmp_dirs' = tmp_dirs
              /\ ws_exists' = ws_exists
              /\ clean_purges' = clean_purges + 1
              /\ exc' = "none"
              /\ status' = "running" ]_vars

\* C18 witness: with no defined workload enabled, the purge of the first
\* iteration follows the one at startup; both logged no error and the
\* persistent venv is still there.
C18_Witness ==
    /\ Running
    /\ pc = "wait"
    /\ enabled_tests = <<"ghost">>
    /\ clean_purges = 2
    /\ artifacts = {PandasVenv("pandas")}

\* C19: without a signal, a process that has started its loop is running.
C19_LoopNeverEnds ==
    (signals = 0 /\ iteration >= 1) => status = "running"

\* C20: an env_install execution whose pip install exited non-zero is
\* recorded as failed.
C20_InstallFailureRecorded ==
    (Running /\ pc = "log" /\ install_failed) => ~result.success

\* C21: setup_completed never loses a name; it changes only when
\* run_test_setup has just returned for the setup_required workload being
\* executed, and then by that name alone; and the execution of a workload
\* whose name is in setup_completed goes to the benchmark without calling
\* the setup and without touching the workspace.
C21_SetupStateFrame ==
    [][ /\ setup_completed \subseteq setup_completed'
        /\ setup_completed' # setup_completed
           => /\ pc \in {"exec_begin", "setup_pip"}
              /\ pc' = "dispatch"
              /\ SetupRequired(TestName)
              /\ setup_completed' = setup_completed \cup {TestName}
              /\ setup_calls'[TestName] >= 1
              /\ result' = result
        /\ (Running /\ pc = "exec_begin" /\ TestName \in setup_completed /\ signals' = signals)
           => /\ pc' = "dispatch"
              /\ UNCHANGED <<setup_calls, setup_completed, artifacts>> ]_vars

\* C21 witness: the second entry of <<"pandas", "pandas">> runs its
\* benchmark in the second iteration; the setup was called once.
C21_Witness ==
    /\ Running
    /\ iteration = 2
    /\ enabled_tests = <<"pandas", "pandas">>
    /\ idx = 2
    /\ pc = "pandas_run"
    /\ setup_completed = {"pandas"}
    /\ setup_calls["pandas"] = 1

\* C22: a non-zero exit of the package installation of an env_install
\* benchmark ends the benchmark with a failure, as its timeout does.
C22_NonZeroLikeTimeout ==
    [][ (Running /\ pc = "venv_install" /\ signals' = signals /\ install_failed')
        => (pc' = "bench_finally" /\ ~result'.success) ]_vars

\* C23 as claimed: a clone that failed is recorded with the failure of the
\* clone, and its directory is not in the workspace afterward.
C23_Original ==
    [][ (/\ pc = "bench_finally"
         /\ exc = "none"
         /\ TestType(TestName) = "git_clone"
         /\ ~result.success
         /\ pc' = "log")
        => /\ result' = result
           /\ \A a \in artifacts : a.cur => Artifact(a.kind, a.tag, FALSE) \notin artifacts' ]_vars

\* C23 as amended: test_git_clone succeeds exactly when the command did not
\* time out, exited with status 0 and left .git, and every other outcome
\* has an error text; a successful clone has made its directory; the
\* result handed on is successful only if the clone was; and when the
\* rmtree of the finally clause did not raise, the result is the one of the
\* clone and the directory is gone, while a raising rmtree (of a directory
\* that exists) gives a failed result with the error of the removal.
C23_CloneOutcome ==
    /\ [](\A timed_out \in BOOLEAN, rc \in ExitStatuses, marker \in BOOLEAN :
            /\ CloneResult(timed_out, rc, marker).success = (~timed_out /\ rc = 0 /\ marker)
            /\ ~CloneResult(timed_out, rc, marker).success
                  => CloneResult(timed_out, rc, marker).error \in {"timeout", "tool", "verify"})
    /\ [][ /\ (Running /\ pc = "clone_run" /\ signals' = signals)
              => /\ pc' = "bench_finally"
                 /\ result'.success => CurDirExists'
           /\ (/\ pc = "bench_finally"
               /\ exc = "none"
               /\ TestType(TestName) = "git_clone"
               /\ signals' = signals)
              => /\ pc' = "log"
                 /\ result'.success => result.success
                 /\ result'.error # "cleanup"
                    => /\ result' = result
                       /\ artifacts' = { a \in artifacts : ~a.cur }
                 /\ result'.error = "cleanup" => (CurDirExists /\ ~result'.success) ]_vars

\* C23 witness: the clone of <<"pandas", "clone">> failed with the tool's
\* error, and no clone directory is left.
C23_Witness ==
    /\ Running
    /\ pc = "log"
    /\ enabled_tests = <<"pandas", "clone">>
    /\ TestName = "clone"
    /\ result = Failure("tool")
    /\ Transients(artifacts) = {}

\* C24: a pandas_load benchmark entered while pandas_venv_<name> is not in
\* the workspace fails at once with the missing-venv error, goes to
\* log_test_result without running the interpreter and leaves the
\* workspace as it is; the interpreter only ever runs with the venv there.
C24_SetupMissing ==
    /\ []((Running /\ pc = "pandas_run") => PandasVenv(TestName) \in artifacts)
    /\ [][ (/\ Running
            /\ pc = "dispatch"
            /\ TestType(TestName) = "pandas_load"
            /\ PandasVenv(TestName) \notin artifacts
            /\ signals' = signals)
           => /\ pc' = "log"
              /\ result' = Failure("setup_missing")
              /\ bench_started'
              /\ UNCHANGED <<artifacts, elapsed, setup_completed>> ]_vars

\* C24 witness: "pandas_ns" (pandas_load without setup) was executed with no
\* venv and failed.
C24_Witness ==
    /\ Running
    /\ pc = "log"
    /\ TestName = "pandas_ns"
    /\ bench_started
    /\ result = Failure("setup_missing")
    /\ PandasVenv("pandas_ns") \notin artifacts

\* C25: before the first iteration setup_completed is empty; the first
\* execution of a setup_required workload calls its setup; a venv that is
\* in the workspace at that point is removed before the build starts (or
\* its removal raises and the execution fails without a benchmark); the
\* build always starts with no venv; and the benchmark of a setup_required
\* pandas_load workload only runs after a setup call of this process.
C25_SetupRedoneAfterRestart ==
    /\ [](iteration = 0 => setup_completed = {})
    /\ []((Running /\ pc = "setup_venv") => PandasVenv(TestName) \notin artifacts)
    /\ []((Running /\ pc = "pandas_run" /\ SetupRequired(TestName))
            => setup_calls[TestName] >= 1)
    /\ [][ (/\ Running
            /\ pc = "exec_begin"
            /\ SetupRequired(TestName)
            /\ setup_calls[TestName] = 0
            /\ signals' = signals)
           => /\ setup_calls'[TestName] = 1
              /\ (TestType(TestName) = "pandas_load" /\ PandasVenv(TestName) \in artifacts)
                 => \/ pc' = "setup_venv" /\ PandasVenv(TestName) \notin artifacts'
                    \/ /\ pc' = "log"
                       /\ result' = Failure("cleanup")
                       /\ TestName \notin setup_completed' ]_vars

\* C25 witness: in the first iteration the setup of "pandas" is about to
\* build its venv, and no venv is in the workspace.
C25_Witness ==
    /\ Running
    /\ iteration = 1
    /\ pc = "setup_venv"
    /\ TestName = "pandas"
    /\ setup_calls["pandas"] = 1
    /\ setup_completed = {}
    /\ PandasVenv("pandas") \notin artifacts

\* C26: cleanup_test_artifacts has not been called before the workspace
\* check is over; it has been called once, with the sink not connected and
\* no iteration started, when connect is reached; in an iteration it has
\* not been called while the for loop runs, is called when the for loop is
\* over, and has been called once when the wait is computed, during the
\* sleep and when the next iteration is about to start.
C26_PurgeOncePerIteration ==
    /\ []((Running /\ pc \in {"load_config", "ensure_target_path", "startup_cleanup"})
            => (purge_calls = 0 /\ ~connection /\ iteration = 0))
    /\ []((Running /\ pc = "connect")
            => (purge_calls = 1 /\ ~connection /\ iteration = 0 /\ ws_exists))
    /\ []((Running /\ pc \in ExecutePositions \cup {"next_test"}) => purge_calls = 0)
    /\ []((Running /\ pc = "cleanup") => (purge_calls = 0 /\ idx > Len(enabled_tests)))
    /\ []((Running /\ pc \in {"wait", "sleeping", "iter_start"}) => purge_calls = 1)
    /\ [][ purge_calls' # purge_calls => pc \in PurgePositions \cup {"iter_start"} ]_vars

\* C26 witness: the second iteration sleeps after its one purge.
C26_Witness ==
    /\ Running
    /\ iteration = 2
    /\ pc = "sleeping"
    /\ purge_calls = 1
    /\ enabled_tests = <<"clone", "clone", "pandas_ns">>
    /\ results_iter = 3

\* C27: a call of cleanup_test_artifacts, whether it logged an error or
\* not, returns to its caller: the process keeps running with nothing
\* propagating, in the same iteration, at connect (startup) or at the
\* computation of the wait (loop); no exit is ever caused by a purge.
C27_PurgeFailureNotEscalated ==
    /\ [](fatal_cause # "cleanup")
    /\ [][ (Running /\ pc \in PurgePositions /\ signals' = signals)
           => /\ status' = "running"
              /\ exc' = "none"
              /\ iteration' = iteration
              /\ pc' = (IF pc = "startup_cleanup" THEN "connect" ELSE "wait") ]_vars

\* C27 witness: the purge of the first iteration logged an error, and the
\* second iteration is executing its first workload.
C27_Witness ==
    /\ Running
    /\ iteration = 2
    /\ idx = 1
    /\ pc = "exec_begin"
    /\ clean_purges = 0
    /\ Transients(artifacts) # {}

\* C28: when a clone or env_install benchmark is about to run its first
\* command, the directory it computed is not in the workspace.
C28_FreshDirectory ==
    (Running /\ pc \in {"clone_run", "venv_create"}) => ~CurDirExists

\* C29: no step of the harness removes a directory under /tmp.
C29_RemovesOnlyInWorkspace ==
    [][ tmp_dirs => tmp_dirs' ]_vars

\* C30: when log_test_result is called, error_message is None exactly when
\* success is true; success is true only when a benchmark function was
\* entered; and a failed setup gives success = false with an error text.
C30_ErrorIffFailure ==
    /\ []((Running /\ pc = "log") => ((result.error = "null") = result.success))
    /\ []((Running /\ pc = "log" /\ result.success) => bench_started)
    /\ [](SetupFailedState => (~result.success /\ result.error # "null"))

\* C30 witness: the benchmark of "pandas" failed because the interpreter of
\* its venv is missing; the result carries that error.
C30_Witness ==
    /\ Running
    /\ pc = "log"
    /\ TestName = "pandas"
    /\ result = Failure("no_python")
    /\ "pandas" \in setup_completed

\* C31: once a termination signal has been handled, log_test_result is not
\* called any more (so the workload that was executing gets no TestResult),
\* and while the sink handle is absent after a signal no row is added to
\* the sink.
C31_NoResultAfterSignal ==
    /\ [](signals > 0 => pc # "log")
    /\ [][ (signals > 0 /\ ~connection) => rows_iter' <= rows_iter ]_vars

\* C32: for a pandas_load workload whose name is in setup_completed,
\* execute_test_case goes straight to the dispatch without calling
\* run_test_setup, whether or not the persistent venv is there; when it is
\* not there, the dispatch ends in the setup-missing failure, which goes to
\* log_test_result, and neither the workspace nor setup_completed changes.
\* Nothing ever takes a name out of setup_completed.
C32_NoSetupRerun ==
    [][ /\ setup_completed \subseteq setup_completed'
        /\ (/\ pc = "exec_begin"
            /\ signals' = signals
            /\ TestName \in setup_completed)
           => /\ pc' = "dispatch"
              /\ setup_calls' = setup_calls
              /\ artifacts' = artifacts
        /\ (/\ pc = "dispatch"
            /\ signals' = signals
            /\ TestType(TestName) = "pandas_load"
            /\ TestName \in setup_completed
            /\ PandasVenv(TestName) \notin artifacts)
           => /\ pc' = "log"
              /\ result' = Failure("setup_missing")
              /\ artifacts' = artifacts
              /\ setup_completed' = setup_completed ]_vars

\* C32 witness: the setup of "pandas" completed (one call of
\* run_test_setup), its venv is gone, and an execution of it has just
\* failed with the setup-missing failure.
C32_Witness ==
    /\ Running
    /\ pc = "log"
    /\ TestName = "pandas"
    /\ "pandas" \in setup_completed
    /\ setup_calls["pandas"] = 1
    /\ PandasVenv("pandas") \notin artifacts
    /\ result = Failure("setup_missing")

\* C33: when the try body of test_git_clone or test_virtualenv_install has
\* returned (tool and verification succeeded), the finally clause ends at
\* log_test_result with the process running and nothing propagating; the
\* result is the success or the cleanup error, and it is the cleanup error
\* whenever the directory was not removed.  When log_test_result returns
\* for such a cleanup failure, the result is counted and the for loop is
\* at the next entry.
C33_CleanupFailureRecorded ==
    [][ /\ (/\ pc = "bench_finally"
            /\ exc = "none"
            /\ body_returned
            /\ signals' = signals)
           => /\ pc' = "log"
              /\ status' = "running"
              /\ exc' = "none"
              /\ result' \in {Success, Failure("cleanup")}
              /\ artifacts' # RemoveCurDir(artifacts) => result' = Failure("cleanup")
        /\ (/\ pc = "log"
            /\ body_returned
            /\ result = Failure("cleanup")
            /\ signals' = signals
            /\ exc' = "none")
           => /\ pc' = "next_test"
              /\ status' = "running"
              /\ idx' = idx + 1
              /\ results_iter' = results_iter + 1 ]_vars

\* C33 witness: the first clone of three entries returned from its try
\* body, the removal of its directory raised and left it, and
\* execute_test_case is about to hand the failed result to log_test_result.
C33_Witness ==
    /\ Running
    /\ enabled_tests = <<"clone", "clone", "pandas_ns">>
    /\ pc = "log"
    /\ idx = 1
    /\ signals = 0
    /\ body_returned
    /\ result = Failure("cleanup")
    /\ Artifact("test_repo", "now", FALSE) \in artifacts

\* C34: for a defined workload with setup_required whose type is not
\* pandas_load, the start of execute_test_case and the dispatch create and
\* remove nothing in the workspace or under /tmp and leave the result
\* alone; the start goes on to the dispatch
\* and ends with the name in setup_completed; run_test_setup is
\* called then if and only if the name was not yet in the set.  The
\* dispatch that follows enters the benchmark function of a git_clone or
\* virtualenv_install workload.  So run_test_setup is called at most once
\* per such name.
C34_SetupWithoutMethod ==
    /\ [](\A n \in DefinedNames :
            (SetupRequired(n) /\ TestType(n) # "pandas_load")
               => /\ setup_calls[n] <= 1
                  /\ setup_calls[n] = 1 <=> n \in setup_completed)
    /\ [][ (/\ pc \in {"exec_begin", "dispatch"}
            /\ signals' = signals
            /\ TestName \in DefinedNames
            /\ SetupRequired(TestName)
            /\ TestType(TestName) # "pandas_load")
           => /\ ReleasePath(artifacts') = ReleasePath(artifacts)
              /\ <<ws_exists, tmp_dirs>>' = <<ws_exists, tmp_dirs>>
              /\ result' = result
              /\ pc = "exec_begin"
                 => /\ pc' = "dispatch"
                    /\ setup_completed' = setup_completed \cup {TestName}
                    /\ setup_calls' =
                         IF TestName \in setup_completed THEN setup_calls
                         ELSE [setup_calls EXCEPT ![TestName] = @ + 1]
              /\ (pc = "dispatch" /\ TestType(TestName) \in {"git_clone", "virtualenv_install"})
                 => /\ bench_started'
                    /\ pc' \in {"clone_run", "venv_create"}
                    /\ setup_completed' = setup_completed ]_vars

\* C34 witness: in the second iteration the virtualenv_install workload
\* "venv" (setup_required) is in its benchmark; its name is in
\* setup_completed, run_test_setup was called for it once, in the first
\* iteration, and no persistent venv was ever made.
C34_Witness ==
    /\ Running
    /\ iteration = 2
    /\ pc = "venv_create"
    /\ TestName = "venv"
    /\ bench_started
    /\ "venv" \in setup_completed
    /\ setup_calls["venv"] = 1
    /\ \A a \in artifacts : a.kind # "pandas_venv"

\* C35: a defined workload whose type is none of git_clone,
\* virtualenv_install and pandas_load is never inside a benchmark function.
\* Its dispatch ends at log_test_result with the unknown-type failure, the
\* process running, nothing propagating, and the workspace, /tmp and
\* setup_completed as they were; when log_test_result returns, that one
\* result is counted and the for loop is at the next entry.
C35_UnknownTypeFails ==
    /\ []((pc \in BenchPositions \/ (pc = "log" /\ bench_started))
            => TestType(TestName) \in {"git_clone", "virtualenv_install", "pandas_load"})
    /\ [][ (/\ pc \in {"dispatch", "log"}
            /\ signals' = signals
            /\ TestType(TestName) \notin {"git_clone", "virtualenv_install", "pandas_load"})
           => /\ pc = "dispatch"
                 => /\ pc' = "log"
                    /\ status' = "running"
                    /\ exc' = "none"
                    /\ result' = Failure("unknown_type")
                    /\ ~bench_started'
                    /\ fsVars' = fsVars
                    /\ setup_completed' = setup_completed
                    /\ countVars' = countVars
              /\ (pc = "log" /\ exc' = "none")
                 => /\ result = Failure("unknown_type")
                    /\ pc' = "next_test"
                    /\ status' = "running"
                    /\ idx' = idx + 1
                    /\ results_iter' = results_iter + 1 ]_vars

\* C35 witness: in the second iteration the workload "odd" (type rsync)
\* is at log_test_result with the unknown-type failure, no benchmark
\* function entered; the first iteration ran to its end.
C35_Witness ==
    /\ Running
    /\ iteration = 2
    /\ pc = "log"
    /\ TestName = "odd"
    /\ ~bench_started
    /\ result = Failure("unknown_type")
    /\ "venv" \in setup_completed

\* C36: the sink handle goes from absent to present only in the connect
\* call of run_test_loop, before the first iteration, and that call is
\* reached only once, from the startup purge.  A log_test_result call made
\* while the handle is absent returns: the process keeps running with
\* nothing propagating, no row is added, the handle stays absent, and the
\* for loop is at the next entry.
C36_ConnectOnceDropWhenAbsent ==
    [][ /\ (~connection /\ connection') => (pc = "connect" /\ iteration = 0)
        /\ (pc' = "connect" /\ pc # "connect") => pc = "startup_cleanup"
        /\ pc = "connect" => pc' # "connect"
        /\ (pc = "log" /\ ~connection /\ signals' = signals)
           => /\ pc' = "next_test"
              /\ status' = "running"
              /\ exc' = "none"
              /\ fatal_cause' = fatal_cause
              /\ ~connection'
              /\ rows_iter' = rows_iter
              /\ results_iter' = results_iter + 1
              /\ idx' = idx + 1 ]_vars

\* C36 witness: the handle is absent (a signal handler disconnected it
\* while the first clone was running, and the loop resumed); the clone's
\* result went to log_test_result, no row was written, and the loop is at
\* the second entry.
C36_Witness ==
    /\ Running
    /\ ~connection
    /\ signals = 1
    /\ iteration = 1
    /\ pc = "next_test"
    /\ idx = 2
    /\ results_iter = 1
    /\ rows_iter = 0

\* Positions of run before the sink is connected: ensure_target_path, the
\* startup cleanup_test_artifacts, and db_logger.connect().
StartupPositions == {"ensure_target_path", "startup_cleanup", "connect"}

\* C37: during startup the sink is not connected, and a signal handled
\* there ends the process at once with status 0: no exception reaches
\* run's except clause, a workspace that does not exist is left alone
\* (nothing removed, no rmtree raised), and the absent sink handle stays
\* absent with no disconnect error.
C37_StartupSignalExitsZero ==
    /\ [](pc \in StartupPositions => ~connection)
    /\ [][ (pc \in StartupPositions /\ signals' = signals + 1)
           => /\ status' = "exit0"
              /\ pc' = "exited"
              /\ fatal_cause' = fatal_cause
              /\ ~connection'
              /\ disconnect_raised' = disconnect_raised
              /\ ~ws_exists => /\ ~ws_exists'
                               /\ artifacts' = artifacts
                               /\ purge_raised' = purge_raised ]_vars

\* C37 witness: the process has exited with status 0 after a signal that
\* was handled before the startup purge had returned; there is no
\* workspace directory, the sink was never connected, and no teardown step
\* raised.
C37_Witness ==
    /\ status = "exit0"
    /\ pc = "exited"
    /\ signals = 1
    /\ iteration = 0
    /\ purge_calls = 0
    /\ ~ws_exists
    /\ ~connection
    /\ ~purge_raised
    /\ ~disconnect_raised

====
